---- MODULE Spec2Model ----
(***************************************************************************)
(* fan2go: the supervisor (Run), the binding of configuration to the       *)
(* discovered hwmon controllers, and the derivation of a fan's PWM         *)
(* boundaries from its curve data.                                         *)
(*                                                                         *)
(* src/unnamed/part_000 holds two revisions of the backend: the one whose  *)
(* Run restores the fans in the task group's interrupt functions (lines    *)
(* 92-639, build "legacy") and the one that builds its objects in          *)
(* InitializeObjects (lines 641-875, build "refactored").  The model       *)
(* carries the revision as the variable build.                             *)
(***************************************************************************)
EXTENDS Integers, Sequences, FiniteSets, TLC

(* ------------------------------ bounds -------------------------------- *)
MaxSensors == 1
MaxFans == 2
\* the pwmN, fanN_input and tempN_input files are numbered 1..MaxIndex
MaxIndex == 3
MaxFanConfigs == 2
MaxSensorConfigs == 1
\* the RPM samples are 0..MaxRpm
MaxRpm == 2
\* configuration.CurrentConfig.RpmRollingWindowSize
RpmRollingWindowSize == 2
\* a persisted PWM holds 1..MaxSamples samples
MaxSamples == 3
\* the calls made on one fan
MaxCalls == 2
\* the ticks one RPM sampler receives
MaxTicks == 3
\* the segments of a device path
MaxSegments == 4
\* AttachFanCurveData fills the PWMs 0..limit (const limit = 255 in the code;
\* the loops are the same for a smaller range)
limit == 8

(* ------------------------- program constants -------------------------- *)
MaxPwmValue == 255
MinPwmValue == 0
InitialLastSetPwm == 0 - 10

Builds == {"legacy", "refactored"}
\* pwm_enable values a fan is found with: 1 manual, 2 automatic (the code
\* tells 1 from every other value and treats the others alike)
PwmEnableModes == {1, 2}
\* the duty cycle the fans run at and a control tick writes (below the maximum)
TickPwm == 128

VARIABLES
    build,          \* which revision of the backend runs
    owner,          \* what getProcessOwner returns
    nSensors,       \* len(SensorMap): the configured sensors
    nFans,          \* len(FanMap): the configured fans
    mainPc,         \* where Run is
    intIdx,         \* the actor whose interrupt function g.Run calls next
    task,           \* per actor: "idle", "running", "returned"
    errors,         \* how many results wait in g.Run's buffered channel
    firstErr,       \* the first result sent to the channel (the one g.Run keeps)
    firstKind,      \* the kind of the actor that sent it
    received,       \* how many results g.Run has received
    cancelled,      \* the context was cancelled
    sigOpen,        \* the signal channel is not closed
    sigArrived,     \* SIGINT/SIGTERM was delivered
    exitCode,       \* -1 while the process runs
    origPwmEnable,  \* per fan: pwm_enable captured at discovery
    pwmEnable,      \* per fan: the pwm_enable file
    pwm,            \* per fan: the pwm file
    restoreLog,     \* per fan: the writes its restore step attempted
    \* --- discovery and binding
    bindPc,         \* where startup is: "start", "discovered", "bound", ...
    controllers,    \* per platform: the numbers of its pwm, fan and temp files
    fanConfigs,     \* the configured fans: (platform, index)
    sensorConfigs,  \* the configured sensors: (platform, index)
    hwFans,         \* per platform: the fans createFans built (legacy, detect)
    fanMap,         \* FanMap: fan config -> the fan bound to it
    sensorMap,      \* SensorMap: sensor config -> the input bound to it
    spawned,        \* the actors Run added: the sensors monitored, the fans
                    \* controlled, and the fan id each RPM sampler reads
    \* --- PWM boundaries
    pwmPc,          \* "start", then "done" once GetPwmBoundaries returned,
                    \* "panic" when it dereferenced a nil pointer
    fanCurveDataNil, \* fan.GetFanCurveData() is a nil pointer
    fanCurveData,   \* the fan's curve data: PWM -> rolling window
    retStartPwm,    \* the startPwm GetPwmBoundaries returned
    retMaxPwm,      \* the maxPwm GetPwmBoundaries returned
    \* --- one fan, its curve data and its RPM sampler
    fanPc,          \* position of the caller of AttachFanCurveData / measureRpm
    curveData,      \* the persisted data: PWM -> list of RPM samples
    curveDataNil,   \* the pointer to the persisted data is nil
    savedData,      \* the snapshot of the fan's windows that was saved
    attachErr,      \* what AttachFanCurveData returned
    hwmonFan,       \* the fan: FanCurveData, RpmMovingAvg, MinPwm, StartPwm,
                    \* MaxPwm, LastSetPwm
    pwmFile,        \* the value of the fan's pwm file, what fan.GetPwm() reads
    calls,          \* how many calls were made on the fan
    lastCall,       \* the last call made on the fan and its inputs
    \* --- the RPM sampler and the controller of one fan, as concurrent tasks
    monPc,          \* rpmMonitor: "select", "measuring", "returned", "crashed"
    ctlPc,          \* the controller: "init", "attaching", "running",
                    \* "returned", "crashed"
    ctxDone,        \* the context is cancelled
    tickPending,    \* the channel of time.Tick holds a tick
    consumed,       \* the ticks rpmMonitor received
    afterCancel,    \* the ticks rpmMonitor received after the cancellation
    monErr,         \* what rpmMonitor returned
    \* --- the discovery of one device
    devPc,          \* position of FindControllers: "start", "found"
    devicePath,     \* the path of the device: its segments, "/" before each
    deviceName,     \* the content of the device's name file
    ctlName,        \* the Name of the controller
    ctlPlatform     \* the Platform of the controller

runVars == <<owner, nSensors, nFans, mainPc, intIdx, task, errors, firstErr,
             firstKind, received, cancelled, sigOpen, sigArrived, exitCode,
             origPwmEnable, pwmEnable, pwm, restoreLog>>

bindVars == <<bindPc, controllers, fanConfigs, sensorConfigs, hwFans, fanMap,
              sensorMap, spawned>>

pwmVars == <<pwmPc, fanCurveDataNil, fanCurveData, retStartPwm, retMaxPwm>>

monVars == <<monPc, ctlPc, ctxDone, tickPending, consumed, afterCancel, monErr>>

fanVars == <<fanPc, curveData, curveDataNil, savedData, attachErr, hwmonFan, pwmFile, calls,
            lastCall, monVars>>

devVars == <<devPc, devicePath, deviceName, ctlName, ctlPlatform>>

vars == <<build, runVars, bindVars, pwmVars, fanVars, devVars>>

(* --------------------------- the task group --------------------------- *)

\* g.Add order: the sensor monitors, then per fan its RPM sampler and its
\* controller, then the signal task.
NumActors == nSensors + 2 * nFans + 1

ActorAt(i) ==
    IF i <= nSensors THEN [kind |-> "sensor", id |-> i]
    ELSE IF i <= nSensors + 2 * nFans
         THEN LET k == i - nSensors - 1
              IN  [kind |-> IF k % 2 = 0 THEN "rpm" ELSE "ctl", id |-> (k \div 2) + 1]
         ELSE [kind |-> "signal", id |-> 0]

Actors == 1..NumActors
Fans == 1..nFans

ActorsOfKind(k) == {a \in Actors : ActorAt(a).kind = k}
ActorOf(k, f) == CHOOSE a \in Actors : ActorAt(a) = [kind |-> k, id |-> f]

Running == mainPc \in {"awaitFirst", "interrupt", "awaitRest"}

\* ui.Fatal: logs and ends the process with exit code 1.
Fatal ==
    /\ mainPc' = "exited"
    /\ exitCode' = 1

\* an actor's execute function returns err: the value is sent to errors.
\* g.Run keeps the first value of the channel and only counts the others.
Return(a, err) ==
    /\ task' = [task EXCEPT ![a] = "returned"]
    /\ errors' = errors + 1
    /\ IF firstErr = "none"
       THEN firstErr' = err /\ firstKind' = ActorAt(a).kind
       ELSE UNCHANGED <<firstErr, firstKind>>

(* ------------------------------ the fans ------------------------------ *)

\* setPwm(fan, v): the enable mode is forced to manual, then v is written.
SetPwm(f, v, ok) ==
    [en  |-> IF ok THEN [pwmEnable EXCEPT ![f] = 1] ELSE pwmEnable,
     pwm |-> IF ok THEN [pwm EXCEPT ![f] = v] ELSE pwm]

\* One write of a restore step, as the log records it.
EnableWrite(f, ok) == [file |-> "pwm_enable", value |-> origPwmEnable[f], ok |-> ok]
PwmWrite(ok) == [file |-> "pwm", value |-> MaxPwmValue, ok |-> ok]

\* The restore step without its early return: the PWM is written although
\* the enable mode was restored.
RestoreFanSettingsNoReturn(f, enOk, pwmOk) ==
    [en  |-> IF origPwmEnable[f] # 1 /\ enOk /\ ~pwmOk
             THEN [pwmEnable EXCEPT ![f] = origPwmEnable[f]]
             ELSE SetPwm(f, MaxPwmValue, pwmOk).en,
     pwm |-> SetPwm(f, MaxPwmValue, pwmOk).pwm,
     log |-> (IF origPwmEnable[f] # 1 THEN <<EnableWrite(f, enOk)>> ELSE <<>>)
             \o <<PwmWrite(pwmOk)>>]

\* The restore step of the legacy Run's interrupt function of a controller.
RestoreFanSettings(f, enOk, pwmOk) ==
    IF origPwmEnable[f] # 1 /\ enOk
    THEN [en  |-> [pwmEnable EXCEPT ![f] = origPwmEnable[f]],
          pwm |-> pwm,
          log |-> <<EnableWrite(f, TRUE)>>]
    ELSE [en  |-> SetPwm(f, MaxPwmValue, pwmOk).en,
          pwm |-> SetPwm(f, MaxPwmValue, pwmOk).pwm,
          log |-> (IF origPwmEnable[f] # 1 THEN <<EnableWrite(f, FALSE)>> ELSE <<>>)
                  \o <<PwmWrite(pwmOk)>>]

\* The Restoring state of the refactored FanController.
Restoring(f, enOk, pwmOk) ==
    IF enOk
    THEN [en  |-> [pwmEnable EXCEPT ![f] = origPwmEnable[f]],
          pwm |-> pwm,
          log |-> <<EnableWrite(f, TRUE)>>]
    ELSE [en  |-> SetPwm(f, MaxPwmValue, pwmOk).en,
          pwm |-> SetPwm(f, MaxPwmValue, pwmOk).pwm,
          log |-> <<EnableWrite(f, FALSE), PwmWrite(pwmOk)>>]

(* -------------------------------- Run --------------------------------- *)

RunInit ==
    /\ owner \in {"root", "user"}
    /\ nSensors \in 0..MaxSensors
    /\ nFans \in 0..MaxFans
    /\ mainPc = "start"
    /\ intIdx = 0
    /\ task = [a \in 1..(nSensors + 2 * nFans + 1) |-> "idle"]
    /\ errors = 0
    /\ firstErr = "none"
    /\ firstKind = "none"
    /\ received = 0
    /\ cancelled = FALSE
    /\ sigOpen = TRUE
    /\ sigArrived = FALSE
    /\ exitCode = -1
    /\ origPwmEnable \in [1..nFans -> PwmEnableModes]
    /\ pwmEnable = origPwmEnable
    /\ pwm = [f \in 1..nFans |-> TickPwm]
    /\ restoreLog = [f \in 1..nFans |-> <<>>]

\* Run without the owner check.
CheckOwnerSkipped ==
    /\ mainPc = "start"
    /\ mainPc' = "init"
    /\ UNCHANGED <<build, bindVars, pwmVars, devVars, fanVars, owner, nSensors, nFans, intIdx,
                   task, errors, firstErr, firstKind, received, cancelled, sigOpen,
                   sigArrived, exitCode, origPwmEnable, pwmEnable, pwm, restoreLog>>

\* Run: the owner check.
CheckOwner ==
    /\ mainPc = "start"
    /\ IF owner # "root"
       THEN Fatal
       ELSE mainPc' = "init" /\ UNCHANGED exitCode
    /\ UNCHANGED <<build, bindVars, pwmVars, devVars, fanVars, owner, nSensors, nFans, intIdx, task, errors, firstErr,
                   firstKind, received, cancelled, sigOpen, sigArrived,
                   origPwmEnable, pwmEnable, pwm, restoreLog>>

\* Run: discovery and binding (FindControllers and MapConfigToControllers, or
\* InitializeObjects), which end the process when they fail.
Initialize ==
    /\ mainPc = "init"
    /\ \E ok \in BOOLEAN :
         IF ok THEN mainPc' = "add" /\ UNCHANGED exitCode ELSE Fatal
    /\ UNCHANGED <<build, bindVars, pwmVars, devVars, fanVars, owner, nSensors, nFans, intIdx, task, errors, firstErr,
                   firstKind, received, cancelled, sigOpen, sigArrived,
                   origPwmEnable, pwmEnable, pwm, restoreLog>>

\* Run: the actors are added; no configured fan is fatal; g.Run starts every
\* actor's execute function.
StartGroup ==
    /\ mainPc = "add"
    /\ IF nFans = 0
       THEN Fatal /\ UNCHANGED task
       ELSE /\ mainPc' = "awaitFirst"
            /\ task' = [a \in Actors |-> "running"]
            /\ UNCHANGED exitCode
    /\ UNCHANGED <<build, bindVars, pwmVars, devVars, fanVars, owner, nSensors, nFans, intIdx, errors, firstErr,
                   firstKind, received, cancelled, sigOpen, sigArrived,
                   origPwmEnable, pwmEnable, pwm, restoreLog>>

\* g.Run: the first result arrives.
ReceiveFirst ==
    /\ mainPc = "awaitFirst"
    /\ errors > 0
    /\ errors' = errors - 1
    /\ received' = 1
    /\ intIdx' = 1
    /\ mainPc' = "interrupt"
    /\ UNCHANGED <<build, bindVars, pwmVars, devVars, fanVars, owner, nSensors, nFans, task, firstErr, firstKind,
                   cancelled, sigOpen, sigArrived, exitCode, origPwmEnable,
                   pwmEnable, pwm, restoreLog>>

NextInterrupt ==
    IF intIdx = NumActors
    THEN mainPc' = "awaitRest" /\ intIdx' = 0
    ELSE mainPc' = "interrupt" /\ intIdx' = intIdx + 1

\* g.Run calls the interrupt function of a sensor monitor: ui.Fatal.
InterruptSensor ==
    /\ mainPc = "interrupt"
    /\ ActorAt(intIdx).kind = "sensor"
    /\ Fatal
    /\ UNCHANGED <<build, bindVars, pwmVars, devVars, fanVars, owner, nSensors, nFans, intIdx, task, errors, firstErr,
                   firstKind, received, cancelled, sigOpen, sigArrived,
                   origPwmEnable, pwmEnable, pwm, restoreLog>>

\* g.Run calls the interrupt function of an RPM sampler: nothing, or a log line.
InterruptRpm ==
    /\ mainPc = "interrupt"
    /\ ActorAt(intIdx).kind = "rpm"
    /\ NextInterrupt
    /\ UNCHANGED <<build, bindVars, pwmVars, devVars, fanVars, owner, nSensors, nFans, task, errors, firstErr,
                   firstKind, received, cancelled, sigOpen, sigArrived, exitCode,
                   origPwmEnable, pwmEnable, pwm, restoreLog>>

\* g.Run calls the interrupt function of a fan controller: the legacy Run
\* restores the fan here, the refactored Run only logs.
InterruptController ==
    /\ mainPc = "interrupt"
    /\ ActorAt(intIdx).kind = "ctl"
    /\ LET f == ActorAt(intIdx).id IN
         IF build = "legacy"
         THEN \E enOk \in BOOLEAN, pwmOk \in BOOLEAN :
                LET r == RestoreFanSettings(f, enOk, pwmOk) IN
                  /\ pwmEnable' = r.en
                  /\ pwm' = r.pwm
                  /\ restoreLog' = [restoreLog EXCEPT ![f] = r.log]
         ELSE UNCHANGED <<pwmEnable, pwm, restoreLog>>
    /\ NextInterrupt
    /\ UNCHANGED <<build, bindVars, pwmVars, devVars, fanVars, owner, nSensors, nFans, task, errors, firstErr,
                   firstKind, received, cancelled, sigOpen, sigArrived, exitCode,
                   origPwmEnable>>

\* g.Run calls the interrupt function of the signal task: cancel(), close(sig).
InterruptSignal ==
    /\ mainPc = "interrupt"
    /\ ActorAt(intIdx).kind = "signal"
    /\ cancelled' = TRUE
    /\ sigOpen' = FALSE
    /\ NextInterrupt
    /\ UNCHANGED <<build, bindVars, pwmVars, devVars, fanVars, owner, nSensors, nFans, task, errors, firstErr,
                   firstKind, received, sigArrived, exitCode,
                   origPwmEnable, pwmEnable, pwm, restoreLog>>

\* g.Run receives the results of the other actors, returns the first result,
\* and Run exits with 1 on an error and returns otherwise.
RunReturn ==
    /\ mainPc = "awaitRest"
    /\ received + errors = NumActors
    /\ received' = NumActors
    /\ errors' = 0
    /\ mainPc' = "exited"
    /\ exitCode' = IF firstErr = "nil" THEN 0 ELSE 1
    /\ UNCHANGED <<build, bindVars, pwmVars, devVars, fanVars, owner, nSensors, nFans, intIdx, task, firstErr,
                   firstKind, cancelled, sigOpen, sigArrived,
                   origPwmEnable, pwmEnable, pwm, restoreLog>>

(* ------------------------------ the tasks ----------------------------- *)

\* SensorMonitor.Run returns nil once the context is cancelled. With a sensor
\* configured the process ends in InterruptSensor before cancel() is called,
\* so no run of Run takes this step.
SensorObserveCancel(a) ==
    /\ Running /\ ActorAt(a).kind = "sensor" /\ task[a] = "running"
    /\ cancelled
    /\ Return(a, "nil")
    /\ UNCHANGED <<build, bindVars, pwmVars, devVars, fanVars, owner, nSensors, nFans, mainPc, intIdx, received, cancelled, sigOpen, sigArrived, exitCode,
                   origPwmEnable, pwmEnable, pwm, restoreLog>>

\* SensorMonitor.Run returns an error.
SensorFail(a) ==
    /\ Running /\ ActorAt(a).kind = "sensor" /\ task[a] = "running"
    /\ Return(a, "err")
    /\ UNCHANGED <<build, bindVars, pwmVars, devVars, fanVars, owner, nSensors, nFans, mainPc, intIdx, received, cancelled, sigOpen, sigArrived, exitCode,
                   origPwmEnable, pwmEnable, pwm, restoreLog>>

\* rpmMonitor: case <-ctx.Done().
RpmObserveCancel(a) ==
    /\ Running /\ ActorAt(a).kind = "rpm" /\ task[a] = "running"
    /\ cancelled
    /\ Return(a, "nil")
    /\ UNCHANGED <<build, bindVars, pwmVars, devVars, fanVars, owner, nSensors, nFans, mainPc, intIdx, received, cancelled, sigOpen, sigArrived, exitCode,
                   origPwmEnable, pwmEnable, pwm, restoreLog>>

\* FanController.Run: a control tick forces manual mode and writes the PWM.
ControllerTick(a) ==
    /\ Running /\ ActorAt(a).kind = "ctl" /\ task[a] = "running"
    /\ ~cancelled
    /\ LET f == ActorAt(a).id IN
         /\ pwmEnable' = SetPwm(f, TickPwm, TRUE).en
         /\ pwm' = SetPwm(f, TickPwm, TRUE).pwm
    /\ UNCHANGED <<build, bindVars, pwmVars, devVars, fanVars, owner, nSensors, nFans, mainPc, intIdx, task, errors,
                   firstErr, firstKind, received, cancelled, sigOpen, sigArrived,
                   exitCode, origPwmEnable, restoreLog>>

\* FanController.Run returns an error: the refactored controller passes
\* through Restoring first, the legacy one leaves the restore to Run.
ControllerFail(a) ==
    /\ Running /\ ActorAt(a).kind = "ctl" /\ task[a] = "running"
    /\ LET f == ActorAt(a).id IN
         IF build = "refactored"
         THEN \E enOk \in BOOLEAN, pwmOk \in BOOLEAN :
                LET r == Restoring(f, enOk, pwmOk) IN
                  /\ pwmEnable' = r.en
                  /\ pwm' = r.pwm
                  /\ restoreLog' = [restoreLog EXCEPT ![f] = r.log]
         ELSE UNCHANGED <<pwmEnable, pwm, restoreLog>>
    /\ Return(a, "err")
    /\ UNCHANGED <<build, bindVars, pwmVars, devVars, fanVars, owner, nSensors, nFans, mainPc, intIdx,
                   received, cancelled, sigOpen, sigArrived, exitCode,
                   origPwmEnable>>

\* FanController.Run observes the cancelled context: the refactored
\* controller restores its fan before it returns, the legacy one returns.
ControllerObserveCancel(a) ==
    /\ Running /\ ActorAt(a).kind = "ctl" /\ task[a] = "running"
    /\ cancelled
    /\ LET f == ActorAt(a).id IN
         IF build = "refactored"
         THEN \E enOk \in BOOLEAN, pwmOk \in BOOLEAN :
                LET r == Restoring(f, enOk, pwmOk) IN
                  /\ pwmEnable' = r.en
                  /\ pwm' = r.pwm
                  /\ restoreLog' = [restoreLog EXCEPT ![f] = r.log]
         ELSE UNCHANGED <<pwmEnable, pwm, restoreLog>>
    /\ Return(a, "nil")
    /\ UNCHANGED <<build, bindVars, pwmVars, devVars, fanVars, owner, nSensors, nFans, mainPc, intIdx, received, cancelled, sigOpen, sigArrived, exitCode,
                   origPwmEnable>>

\* SIGINT or SIGTERM is delivered to the process.
SignalArrives ==
    /\ Running
    /\ ~sigArrived
    /\ sigArrived' = TRUE
    /\ UNCHANGED <<build, bindVars, pwmVars, devVars, fanVars, owner, nSensors, nFans, mainPc, intIdx, task, errors,
                   firstErr, firstKind, received, cancelled, sigOpen, exitCode,
                   origPwmEnable, pwmEnable, pwm, restoreLog>>

\* The signal task: <-sig returns on a signal or on the closed channel.
SignalTaskReturn(a) ==
    /\ Running /\ ActorAt(a).kind = "signal" /\ task[a] = "running"
    /\ sigArrived \/ ~sigOpen
    /\ Return(a, "nil")
    /\ UNCHANGED <<build, bindVars, pwmVars, devVars, fanVars, owner, nSensors, nFans, mainPc, intIdx, received, cancelled, sigOpen, sigArrived, exitCode,
                   origPwmEnable, pwmEnable, pwm, restoreLog>>

(* ----------------------- discovery and binding ------------------------ *)

\* The devices found: "a", whose pwm and fan files vary, and "b", a fully
\* populated chip; "z" is a platform no device has.
Platforms == {"a", "b"}
ControllerOrder == <<"a", "b">>
ConfigPlatforms == Platforms \cup {"z"}
Indexes == 1..MaxIndex
SensorIndexes == {1, 2}

NoPath == <<>>
Path(p, kind, n) == <<p, kind, n>>

RECURSIVE SortedSeq(_)
\* util.FindFilesMatching: the matching files in ascending order.
SortedSeq(S) ==
    IF S = {} THEN <<>>
    ELSE LET m == CHOOSE x \in S : \A y \in S : x <= y
         IN  <<m>> \o SortedSeq(S \ {m})

\* createFans of the legacy backend: the pwm files in order, each paired with
\* the fan input at the same position of the list of fan inputs.
CreateFans(p) ==
    LET outputs == SortedSeq(controllers[p].pwm)
        inputs  == SortedSeq(controllers[p].fan)
    IN  IF Len(inputs) < Len(outputs)
        THEN [panic |-> TRUE, fans |-> <<>>]
        ELSE [panic |-> FALSE,
              fans  |-> [i \in 1..Len(outputs) |->
                           [Index     |-> outputs[i],
                            PwmOutput |-> Path(p, "pwm", outputs[i]),
                            RpmInput  |-> Path(p, "fan_input", inputs[i])]]]

\* createFans of the detect command: the pwm files and the fan inputs are
\* keyed by the number in their names.
DetectCreateFans(p) ==
    LET outputs == SortedSeq(controllers[p].pwm)
    IN  [i \in 1..Len(outputs) |->
            [Index     |-> outputs[i],
             PwmOutput |-> Path(p, "pwm", outputs[i]),
             RpmInput  |-> IF outputs[i] \in controllers[p].fan
                           THEN Path(p, "fan_input", outputs[i])
                           ELSE NoPath]]

\* findFanConfig: the fan configurations of the controller's platform and
\* the fan's index.
FindFanConfig(p, fan) ==
    {c \in fanConfigs : c.platform = p /\ c.index = fan.Index}

\* findSensorConfig, for the sensor of temp<n>_input of the controller.
FindSensorConfig(p, n) ==
    {c \in sensorConfigs : c.platform = p /\ c.index = n}

\* The binding rule of a sensor: a controller of the platform with the input.
SensorMatches(c) ==
    c.platform \in Platforms /\ c.index \in controllers[c.platform].temp

\* The binding rule of a fan: a controller of the platform with pwm<index>.
FanMatches(c) ==
    c.platform \in Platforms /\ c.index \in controllers[c.platform].pwm

\* InitializeObjects, one fan configuration: the first controller of the
\* platform gives PwmInputs[Index] and FanInputs[Index], elements of the
\* sorted lists of files counted from 0.
BindFanConfig(c) ==
    IF c.platform \notin Platforms
    THEN [panic |-> FALSE, PwmOutput |-> NoPath, RpmInput |-> NoPath]
    ELSE LET PwmInputs == SortedSeq(controllers[c.platform].pwm)
             FanInputs == SortedSeq(controllers[c.platform].fan)
         IN  IF c.index >= Len(PwmInputs) \/ c.index >= Len(FanInputs)
             THEN [panic |-> TRUE, PwmOutput |-> NoPath, RpmInput |-> NoPath]
             ELSE [panic     |-> FALSE,
                   PwmOutput |-> Path(c.platform, "pwm", PwmInputs[c.index + 1]),
                   RpmInput  |-> Path(c.platform, "fan_input", FanInputs[c.index + 1])]

\* fans.NewFan fails for a configuration that no controller gave a PWM output.
NewFanFails(c) == BindFanConfig(c).PwmOutput = NoPath

\* sensors.NewSensor fails for a configuration that matches no controller.
NewSensorFails(c) == ~SensorMatches(c)

FanConfigSets ==
    {S \in SUBSET [platform : ConfigPlatforms, index : Indexes] :
        Cardinality(S) <= MaxFanConfigs}
SensorConfigSets ==
    {S \in SUBSET [platform : ConfigPlatforms, index : SensorIndexes] :
        Cardinality(S) <= MaxSensorConfigs}

NoActors == [monitors |-> {}, controllers |-> {}, samplers |-> <<>>]

BindInit ==
    /\ bindPc = "start"
    /\ \E P \in SUBSET Indexes, F \in SUBSET Indexes :
         controllers = [p \in Platforms |->
                          IF p = "a" THEN [pwm |-> P, fan |-> F, temp |-> {1}]
                          ELSE [pwm |-> Indexes, fan |-> Indexes, temp |-> {1}]]
    /\ fanConfigs \in FanConfigSets
    /\ sensorConfigs \in SensorConfigSets
    /\ hwFans = <<>>
    /\ fanMap = <<>>
    /\ sensorMap = <<>>
    /\ spawned = NoActors

BindOff ==
    /\ bindPc = "off"
    /\ controllers = <<>>
    /\ fanConfigs = {}
    /\ sensorConfigs = {}
    /\ hwFans = <<>>
    /\ fanMap = <<>>
    /\ sensorMap = <<>>
    /\ spawned = NoActors

\* The legacy FindControllers: createFans for every device.
FindControllers ==
    /\ build = "legacy"
    /\ bindPc = "start"
    /\ IF \E p \in Platforms : CreateFans(p).panic
       THEN bindPc' = "panic" /\ UNCHANGED hwFans
       ELSE /\ bindPc' = "discovered"
            /\ hwFans' = [p \in Platforms |-> CreateFans(p).fans]
    /\ UNCHANGED <<build, runVars, pwmVars, devVars, fanVars, controllers, fanConfigs,
                   sensorConfigs, fanMap, sensorMap, spawned>>

\* MapConfigToControllers: every discovered fan and sensor looks for its
\* configuration.
MapConfigToControllers ==
    /\ build = "legacy"
    /\ bindPc = "discovered"
    /\ LET bound == {c \in fanConfigs :
                       \E p \in Platforms : \E i \in 1..Len(hwFans[p]) :
                           c \in FindFanConfig(p, hwFans[p][i])}
           fanOf(c) == LET i == CHOOSE i \in 1..Len(hwFans[c.platform]) :
                                   c \in FindFanConfig(c.platform, hwFans[c.platform][i])
                       IN  hwFans[c.platform][i]
       IN  fanMap' = [c \in bound |-> fanOf(c)]
    /\ LET bound == {c \in sensorConfigs :
                       \E p \in Platforms : \E n \in controllers[p].temp :
                           c \in FindSensorConfig(p, n)}
       IN  sensorMap' = [c \in bound |-> Path(c.platform, "temp_input", c.index)]
    /\ bindPc' = "bound"
    /\ UNCHANGED <<build, runVars, pwmVars, devVars, fanVars, controllers, fanConfigs,
                   sensorConfigs, hwFans, spawned>>

\* InitializeObjects: the sensors, then the fans; the first configuration
\* that fails ends the process.
InitializeObjects ==
    /\ build = "refactored"
    /\ bindPc = "start"
    /\ IF \E c \in sensorConfigs : NewSensorFails(c)
       THEN bindPc' = "fatal" /\ UNCHANGED <<fanMap, sensorMap>>
       ELSE \/ /\ \E c \in fanConfigs : BindFanConfig(c).panic
               /\ bindPc' = "panic"
               /\ UNCHANGED <<fanMap, sensorMap>>
            \/ /\ \E c \in fanConfigs : ~BindFanConfig(c).panic /\ NewFanFails(c)
               /\ bindPc' = "fatal"
               /\ UNCHANGED <<fanMap, sensorMap>>
            \/ /\ \A c \in fanConfigs : ~BindFanConfig(c).panic /\ ~NewFanFails(c)
               /\ bindPc' = "bound"
               /\ sensorMap' = [c \in sensorConfigs |->
                                  Path(c.platform, "temp_input", c.index)]
               /\ fanMap' = [c \in fanConfigs |->
                               [Index     |-> c.index,
                                PwmOutput |-> BindFanConfig(c).PwmOutput,
                                RpmInput  |-> BindFanConfig(c).RpmInput]]
    /\ UNCHANGED <<build, runVars, pwmVars, devVars, fanVars, controllers, fanConfigs,
                   sensorConfigs, hwFans, spawned>>

\* The fan id the closure of an RPM sampler reads when the group runs it.
\* The legacy loop declares fanId in its body, one variable per fan. The
\* refactored loop captures its range variable fanId: with one variable per
\* iteration the closure reads its own fan's id, with one variable for the
\* whole loop it reads the id of the fan iterated last.
CapturedFanId(perIteration, own, last) == IF perIteration THEN own ELSE last

\* Run: one sensor monitor per bound sensor, one RPM sampler and one
\* controller per bound fan; no configured fan is fatal.
SpawnTasks ==
    /\ bindPc = "bound"
    /\ IF DOMAIN fanMap = {}
       THEN bindPc' = "fatal" /\ UNCHANGED spawned
       ELSE /\ bindPc' = "spawned"
            /\ \E perIteration \in IF build = "legacy" THEN {TRUE} ELSE BOOLEAN,
                  last \in DOMAIN fanMap :
                 spawned' = [monitors    |-> DOMAIN sensorMap,
                             controllers |-> DOMAIN fanMap,
                             samplers    |-> [c \in DOMAIN fanMap |->
                                                CapturedFanId(perIteration, c, last)]]
    /\ UNCHANGED <<build, runVars, pwmVars, devVars, fanVars, controllers, fanConfigs,
                   sensorConfigs, hwFans, fanMap, sensorMap>>

\* The detect command: createFans of cmd/detect.go for every controller.
DetectCmd ==
    /\ bindPc = "start"
    /\ bindPc' = "detected"
    /\ hwFans' = [p \in Platforms |-> DetectCreateFans(p)]
    /\ UNCHANGED <<build, runVars, pwmVars, devVars, fanVars, controllers, fanConfigs,
                   sensorConfigs, fanMap, sensorMap, spawned>>

(* --------------------------- PWM boundaries --------------------------- *)

\* the PWM values the curve data may hold windows for
SamplePwms == {0, 128, 255}

\* createRollingWindow: a window of RpmRollingWindowSize slots, all 0, that
\* Append fills in turn.
Windows == [slots : [1..RpmRollingWindowSize -> 0..MaxRpm], offset : {0}]

CurveDataSets == UNION {[K -> Windows] : K \in SUBSET SamplePwms}

RECURSIVE SeqSum(_)
SeqSum(q) == IF q = <<>> THEN 0 ELSE Head(q) + SeqSum(Tail(q))

\* The sum of the window's slots; getWindowAvg is this sum divided by the
\* number of slots.
WindowSum(w) == SeqSum(w.slots)

\* int(getWindowAvg(window))
AvgRpm(w) == WindowSum(w) \div Len(w.slots)

\* The comparison with >= in place of >: a later key of the same average
\* replaces the earlier one.
IsNewMaxOrEqual(avgRpm, maxRpm) == avgRpm >= maxRpm

\* avgRpm > maxRpm
IsNewMax(avgRpm, maxRpm) == avgRpm > maxRpm

\* The test without pwm < startPwm: every spinning key replaces the start.
IsNewStartAnyKey(avgRpm, keyPwm, startPwm) == avgRpm > 0

\* avgRpm > 0 && pwm < startPwm
IsNewStart(avgRpm, keyPwm, startPwm) == avgRpm > 0 /\ keyPwm < startPwm

RECURSIVE BoundariesLoop(_, _, _, _, _)
\* GetPwmBoundaries: the loop over the sorted keys.
BoundariesLoop(data, keys, maxRpm, startPwm, maxPwm) ==
    IF keys = <<>>
    THEN [startPwm |-> startPwm, maxPwm |-> maxPwm]
    ELSE LET keyPwm == Head(keys)
             avgRpm == AvgRpm(data[keyPwm])
         IN  BoundariesLoop(
                 data, Tail(keys),
                 IF IsNewMax(avgRpm, maxRpm) THEN avgRpm ELSE maxRpm,
                 IF IsNewStart(avgRpm, keyPwm, startPwm) THEN keyPwm ELSE startPwm,
                 IF IsNewMax(avgRpm, maxRpm) THEN keyPwm ELSE maxPwm)

GetPwmBoundaries(data) ==
    IF DOMAIN data = {}
    THEN [startPwm |-> 0, maxPwm |-> MaxPwmValue]
    ELSE BoundariesLoop(data, SortedSeq(DOMAIN data), 0, MaxPwmValue, MaxPwmValue)

\* fan.GetFanCurveData() is a pointer to the map: nil, or a map that may be
\* empty.
PwmInit ==
    /\ pwmPc = "start"
    /\ fanCurveDataNil \in BOOLEAN
    /\ fanCurveData \in IF fanCurveDataNil THEN {<<>>} ELSE CurveDataSets
    /\ retStartPwm = -1
    /\ retMaxPwm = -1

PwmOff ==
    /\ pwmPc = "off"
    /\ fanCurveDataNil = FALSE
    /\ fanCurveData = <<>>
    /\ retStartPwm = -1
    /\ retMaxPwm = -1

\* GetPwmBoundaries is called on the fan: len(*pwmRpmMap) is evaluated before
\* the test pwmRpmMap == nil, so a nil pointer is dereferenced.
CallGetPwmBoundaries ==
    /\ pwmPc = "start"
    /\ IF fanCurveDataNil
       THEN pwmPc' = "panic" /\ UNCHANGED <<retStartPwm, retMaxPwm>>
       ELSE /\ pwmPc' = "done"
            /\ retStartPwm' = GetPwmBoundaries(fanCurveData).startPwm
            /\ retMaxPwm' = GetPwmBoundaries(fanCurveData).maxPwm
    /\ UNCHANGED <<build, runVars, bindVars, fanVars, devVars, fanCurveDataNil,
                   fanCurveData>>

(* ------------------------- float64 as rationals ------------------------ *)

\* The RPM values are float64; the model holds them as fractions <<n, d>> in
\* lowest terms with d > 0, and computes with them exactly.
Abs(n) == IF n < 0 THEN 0 - n ELSE n

RECURSIVE Gcd(_, _)
Gcd(a, b) == IF b = 0 THEN a ELSE Gcd(b, a % b)

Rat(n, d) == LET g == Gcd(Abs(n), d) IN <<n \div g, d \div g>>
RatInt(n) == <<n, 1>>
RatAdd(a, b) == Rat(a[1] * b[2] + b[1] * a[2], a[2] * b[2])
RatSub(a, b) == Rat(a[1] * b[2] - b[1] * a[2], a[2] * b[2])
RatMul(a, b) == Rat(a[1] * b[1], a[2] * b[2])
RatDivInt(a, k) == Rat(a[1], a[2] * k)
\* int(x) for x >= 0
RatTrunc(a) == a[1] \div a[2]

RECURSIVE RatSum(_)
RatSum(q) == IF q = <<>> THEN RatInt(0) ELSE RatAdd(Head(q), RatSum(Tail(q)))

\* util.Avg: the mean of the values
Avg(values) == RatDivInt(RatSum(values), Len(values))

\* util.Ratio(target, rangeMin, rangeMax)
Ratio(target, rangeMin, rangeMax) == Rat(target - rangeMin, rangeMax - rangeMin)

(* ------------------------- AttachFanCurveData -------------------------- *)

\* createRollingWindow(size): size slots, all 0; Append writes the slot at
\* the offset and moves the offset on.
createRollingWindow(size) ==
    [slots |-> [k \in 1..size |-> RatInt(0)], offset |-> 0]

WindowAppend(w, v) ==
    [slots  |-> [w.slots EXCEPT ![w.offset + 1] = v],
     offset |-> (w.offset + 1) % Len(w.slots)]

\* getWindowAvg(window): the sum of the slots over their number
getWindowAvg(w) == RatDivInt(RatSum(w.slots), Len(w.slots))

\* containsKey && len(pointValues) > 0
ContainsValues(cd, i) == i \in DOMAIN cd /\ Len(cd[i]) > 0

\* lastValueIdx and lastValueAvg at iteration i: set at the last iteration up
\* to i whose key holds values, 0 before any.
LastKeys(cd, i) == {k \in 0..i : ContainsValues(cd, k)}
lastValueIdx(cd, i) ==
    IF LastKeys(cd, i) = {} THEN 0
    ELSE CHOOSE k \in LastKeys(cd, i) : \A j \in LastKeys(cd, i) : j <= k
lastValueAvg(cd, i) ==
    IF LastKeys(cd, i) = {} THEN RatInt(0) ELSE Avg(cd[lastValueIdx(cd, i)])

\* for j := i; j <= limit; j++ { if containsKey { nextValueIdx = j; ... } }:
\* the loop has no break, so the last key found from i up stays.
nextValueIdx(cd, i) ==
    LET found == {j \in i..limit : j \in DOMAIN cd}
    IN  IF found = {} THEN i
        ELSE CHOOSE k \in found : \A j \in found : j <= k

\* pointValues after the first part of iteration i
PointValues(cd, i) ==
    IF ContainsValues(cd, i) THEN cd[i]
    ELSE LET nextIdx == nextValueIdx(cd, i) IN
         IF nextIdx = i
         THEN \* copy(pointValues, valuesCopy); pointValues = valuesCopy
              <<>>
         ELSE LET lastAvg == lastValueAvg(cd, i)
                  nextAvg == Avg(cd[nextIdx])
                  ratio   == Ratio(i, lastValueIdx(cd, i), nextIdx)
              IN  <<RatAdd(lastAvg, RatMul(ratio, RatSub(nextAvg, lastAvg)))>>

\* rpm of step k of the filling: pointValues[k], or currentAvg beyond them
WindowValue(pointValues, k, currentAvg) ==
    IF k < Len(pointValues) THEN pointValues[k + 1] ELSE currentAvg

RECURSIVE FillWindowGiven(_, _, _, _)
\* The filling loop that stops at the last given value and pads nothing.
FillWindowGiven(pointValues, k, currentAvg, window) ==
    IF k >= RpmRollingWindowSize \/ k >= Len(pointValues) THEN window
    ELSE FillWindowGiven(pointValues, k + 1, currentAvg,
                         WindowAppend(window, pointValues[k + 1]))

RECURSIVE FillWindow(_, _, _, _)
\* for k := 0; k < RpmRollingWindowSize; k++ { ... Append(rpm) }
FillWindow(pointValues, k, currentAvg, window) ==
    IF k >= RpmRollingWindowSize THEN window
    ELSE LET rpm == WindowValue(pointValues, k, currentAvg)
         IN  FillWindow(pointValues, k + 1,
                        IF k = 0 THEN rpm ELSE RatDivInt(RatAdd(currentAvg, rpm), 2),
                        WindowAppend(window, rpm))

\* GetPwmBoundaries reads a window only through int(getWindowAvg(window)); the
\* window with that integer in every slot stands for it.
TruncatedWindows(data) ==
    [k \in DOMAIN data |->
        [slots  |-> [n \in 1..Len(data[k].slots) |-> RatTrunc(getWindowAvg(data[k]))],
         offset |-> 0]]

\* fan.SetMinPwm(maxPwm) in place of fan.SetMinPwm(startPwm)
AttachMinPwmFromMax(startPwm, maxPwm) == maxPwm

\* fan.SetMinPwm(startPwm)
AttachMinPwm(startPwm, maxPwm) == startPwm

\* The test of AttachFanCurveData left out: no data is void.
NeverVoid(cd) == FALSE

\* len(*curveData) <= 0
IsVoid(cd) == DOMAIN cd = {}

\* AttachFanCurveData(curveData, fan): the fan afterwards and the error
AttachFanCurveData(cd, f) ==
    IF IsVoid(cd)
    THEN [err |-> "ErrInvalid", fan |-> f]
    ELSE LET data == [i \in 0..limit |->
                        FillWindow(PointValues(cd, i), 0, RatInt(0),
                                   createRollingWindow(RpmRollingWindowSize))]
             all  == [k \in DOMAIN f.FanCurveData \cup (0..limit) |->
                        IF k \in 0..limit THEN data[k] ELSE f.FanCurveData[k]]
             b    == GetPwmBoundaries(TruncatedWindows(all))
         IN  [err |-> "nil",
              fan |-> [f EXCEPT !.FanCurveData = all,
                                !.StartPwm = b.startPwm,
                                !.MaxPwm = b.maxPwm,
                                !.MinPwm = AttachMinPwm(b.startPwm, b.maxPwm)]]

\* AttachFanCurveData(curveData, fan) with the pointer curveData: a nil
\* pointer is refused before it is dereferenced.
AttachFanCurveDataPtr(isNil, cd, f) ==
    IF isNil THEN [err |-> "ErrInvalid", fan |-> f]
    ELSE AttachFanCurveData(cd, f)

\* The fan as createFans builds it.
NewFan ==
    [FanCurveData |-> <<>>,
     RpmMovingAvg |-> RatInt(0),
     MinPwm       |-> MinPwmValue,
     StartPwm     |-> 0,
     MaxPwm       |-> MaxPwmValue,
     LastSetPwm   |-> InitialLastSetPwm]

\* Persistence, save: the snapshot of the windows, each as its list of samples
\* from the oldest to the newest.
SavedSamples(w) ==
    [n \in 1..Len(w.slots) |-> w.slots[((w.offset + n - 1) % Len(w.slots)) + 1]]
Save(data) == [k \in DOMAIN data |-> SavedSamples(data[k])]

\* the PWMs the persisted data may define
AttachPwms == {0, 2, 4, 6, 8}
\* the lists of 1..MaxSamples samples
SampleLists ==
    UNION {[1..n -> {RatInt(r) : r \in 0..MaxRpm}] : n \in 1..MaxSamples}
Reverse(q) == [n \in 1..Len(q) |-> q[Len(q) + 1 - n]]
\* sparse data: some of AttachPwms, each with one sample
SparseData ==
    UNION {[K -> {<<RatInt(r)>> : r \in 0..MaxRpm}] : K \in SUBSET AttachPwms}
\* dense data: every PWM holds the same samples, in one order or the other
DenseData ==
    {[i \in 0..limit |-> IF i % 2 = 0 THEN q ELSE Reverse(q)] : q \in SampleLists}
IsDense(cd) == DOMAIN cd = 0..limit

NoCall == [op |-> "none", pwm |-> 0, rpm |-> 0]

\* the state of the tasks where no task runs
MonOff ==
    /\ monPc = "off"
    /\ ctlPc = "off"
    /\ ctxDone = FALSE
    /\ tickPending = FALSE
    /\ consumed = 0
    /\ afterCancel = 0
    /\ monErr = "none"

AttachInit ==
    /\ fanPc = "start"
    /\ curveData \in SparseData \cup DenseData
    /\ curveDataNil = FALSE
    /\ savedData = <<>>
    /\ attachErr = "none"
    /\ hwmonFan = NewFan
    /\ pwmFile = 0
    /\ calls = 0
    /\ lastCall = NoCall
    /\ MonOff

FanOff ==
    /\ fanPc = "off"
    /\ curveData = <<>>
    /\ curveDataNil = FALSE
    /\ savedData = <<>>
    /\ attachErr = "none"
    /\ hwmonFan = <<>>
    /\ pwmFile = 0
    /\ calls = 0
    /\ lastCall = NoCall
    /\ MonOff

\* The controller attaches the persisted data to its fan.
CallAttachFanCurveData ==
    /\ fanPc = "start"
    /\ fanPc' = "attached"
    /\ attachErr' = AttachFanCurveData(curveData, hwmonFan).err
    /\ hwmonFan' = AttachFanCurveData(curveData, hwmonFan).fan
    /\ UNCHANGED <<build, runVars, bindVars, pwmVars, devVars, curveData, curveDataNil, savedData,
                   pwmFile, calls, lastCall, monVars>>

\* The attached data is saved, loaded and attached again.
SaveAndAttachAgain ==
    /\ fanPc = "attached"
    /\ attachErr = "nil"
    /\ fanPc' = "reattached"
    /\ savedData' = Save(hwmonFan.FanCurveData)
    /\ attachErr' = AttachFanCurveData(Save(hwmonFan.FanCurveData), hwmonFan).err
    /\ hwmonFan' = AttachFanCurveData(Save(hwmonFan.FanCurveData), hwmonFan).fan
    /\ UNCHANGED <<build, runVars, bindVars, pwmVars, devVars, curveData, curveDataNil, pwmFile, calls,
                   lastCall, monVars>>

(* ------------------------ one fan and its sampler ---------------------- *)

\* the values the pwm file of the fan takes
FanPwms == {0, limit \div 2, limit}
\* the persisted data a controller finds for its fan
FanPersisted ==
    UNION {[K -> {<<RatInt(0)>>, <<RatInt(MaxRpm)>>}] : K \in SUBSET {2, 6}}

\* updateSimpleMovingAvg(oldAvg, n, newValue)
updateSimpleMovingAvg(oldAvg, n, newValue) ==
    RatAdd(oldAvg, RatDivInt(RatSub(newValue, oldAvg), n))

\* measureRpm(fanId) with curPwm the result of fan.GetPwm() and rpm := fan.GetRpm()
measureRpm(f, curPwm, rpm) ==
    LET pwmRpmMap   == f.FanCurveData
        pointWindow == IF curPwm \in DOMAIN pwmRpmMap THEN pwmRpmMap[curPwm]
                       ELSE createRollingWindow(RpmRollingWindowSize)
    IN  [f EXCEPT
           !.RpmMovingAvg = updateSimpleMovingAvg(f.RpmMovingAvg,
                                                  RpmRollingWindowSize, RatInt(rpm)),
           !.FanCurveData = [k \in DOMAIN pwmRpmMap \cup {curPwm} |->
                               IF k = curPwm THEN WindowAppend(pointWindow, RatInt(rpm))
                               ELSE pwmRpmMap[k]]]

FanInit ==
    /\ fanPc = "running"
    /\ curveData = <<>>
    /\ curveDataNil = FALSE
    /\ savedData = <<>>
    /\ attachErr = "none"
    /\ hwmonFan = NewFan
    /\ pwmFile \in FanPwms
    /\ calls = 0
    /\ lastCall = NoCall
    /\ MonOff

\* rpmMonitor, case <-tick: the legacy sampler calls measureRpm, the refactored
\* one has the call commented out.
RpmTick ==
    /\ fanPc = "running"
    /\ calls < MaxCalls
    /\ \E rpm \in 0..MaxRpm :
         /\ lastCall' = [op |-> "tick", pwm |-> pwmFile, rpm |-> rpm]
         /\ hwmonFan' = IF build = "legacy" THEN measureRpm(hwmonFan, pwmFile, rpm)
                        ELSE hwmonFan
    /\ calls' = calls + 1
    /\ UNCHANGED <<build, runVars, bindVars, pwmVars, devVars, fanPc, curveData, curveDataNil, savedData,
                   attachErr, pwmFile, monVars>>

\* The controller writes a PWM value: setPwm writes the file and remembers
\* the value as the last set one.
ControllerSetPwm ==
    /\ fanPc = "running"
    /\ calls < MaxCalls
    /\ \E v \in FanPwms :
         /\ pwmFile' = v
         /\ hwmonFan' = [hwmonFan EXCEPT !.LastSetPwm = v]
         /\ lastCall' = [op |-> "setPwm", pwm |-> v, rpm |-> 0]
    /\ calls' = calls + 1
    /\ UNCHANGED <<build, runVars, bindVars, pwmVars, devVars, fanPc, curveData, curveDataNil, savedData,
                   attachErr, monVars>>

\* The controller attaches persisted data to the fan.
ControllerAttach ==
    /\ fanPc = "running"
    /\ calls < MaxCalls
    /\ \E isNil \in BOOLEAN :
       \E cd \in IF isNil THEN {<<>>} ELSE FanPersisted :
         /\ curveData' = cd
         /\ curveDataNil' = isNil
         /\ attachErr' = AttachFanCurveDataPtr(isNil, cd, hwmonFan).err
         /\ hwmonFan' = AttachFanCurveDataPtr(isNil, cd, hwmonFan).fan
    /\ lastCall' = [op |-> "attach", pwm |-> 0, rpm |-> 0]
    /\ calls' = calls + 1
    /\ UNCHANGED <<build, runVars, bindVars, pwmVars, devVars, fanPc, savedData, pwmFile, monVars>>

(* ------------- the sampler and the controller as two tasks ------------- *)

MonInit ==
    /\ fanPc = "running"
    /\ curveData \in FanPersisted
    /\ curveDataNil = FALSE
    /\ savedData = <<>>
    /\ attachErr = "none"
    /\ hwmonFan = NewFan
    /\ pwmFile \in FanPwms
    /\ calls = 0
    /\ lastCall = NoCall
    /\ monPc = "select"
    /\ ctlPc = "init"
    /\ ctxDone = FALSE
    /\ tickPending = FALSE
    /\ consumed = 0
    /\ afterCancel = 0
    /\ monErr = "none"

\* time.Tick: the ticker sends on a channel that holds one tick.
TimeTick ==
    /\ ~tickPending
    /\ tickPending' = TRUE
    /\ UNCHANGED <<build, runVars, bindVars, pwmVars, devVars, fanPc, curveData, curveDataNil, savedData,
                   attachErr, hwmonFan, pwmFile, calls, lastCall, monPc, ctlPc,
                   ctxDone, consumed, afterCancel, monErr>>

\* cancel(): a signal arrived or an actor returned.
CancelContext ==
    /\ ~ctxDone
    /\ ctxDone' = TRUE
    /\ UNCHANGED <<build, runVars, bindVars, pwmVars, devVars, fanPc, curveData, curveDataNil, savedData,
                   attachErr, hwmonFan, pwmFile, calls, lastCall, monPc, ctlPc,
                   tickPending, consumed, afterCancel, monErr>>

\* rpmMonitor, case <-ctx.Done(): return nil.
SamplerSelectDone ==
    /\ monPc = "select"
    /\ ctxDone
    /\ monPc' = "returned"
    /\ monErr' = "nil"
    /\ UNCHANGED <<build, runVars, bindVars, pwmVars, devVars, fanPc, curveData, curveDataNil, savedData,
                   attachErr, hwmonFan, pwmFile, calls, lastCall, ctlPc, ctxDone,
                   tickPending, consumed, afterCancel>>

\* rpmMonitor, case <-tick: select takes any of its ready cases. The legacy
\* sampler enters measureRpm, which reads the PWM and the RPM of the fan; the
\* refactored one does nothing.
SamplerSelectTick ==
    /\ monPc = "select"
    /\ tickPending
    /\ consumed < MaxTicks
    /\ tickPending' = FALSE
    /\ consumed' = consumed + 1
    /\ afterCancel' = IF ctxDone THEN afterCancel + 1 ELSE afterCancel
    /\ IF build = "legacy"
       THEN /\ monPc' = "measuring"
            /\ \E rpm \in {0, MaxRpm} :
                 lastCall' = [op |-> "tick", pwm |-> pwmFile, rpm |-> rpm]
       ELSE UNCHANGED <<monPc, lastCall>>
    /\ UNCHANGED <<build, runVars, bindVars, pwmVars, devVars, fanPc, curveData, curveDataNil, savedData,
                   attachErr, hwmonFan, pwmFile, calls, ctlPc, ctxDone, monErr>>

\* measureRpm writes the moving average and the window of the PWM it read.
SamplerMeasured ==
    /\ monPc = "measuring"
    /\ hwmonFan' = measureRpm(hwmonFan, lastCall.pwm, lastCall.rpm)
    /\ monPc' = "select"
    /\ UNCHANGED <<build, runVars, bindVars, pwmVars, devVars, fanPc, curveData, curveDataNil, savedData,
                   attachErr, pwmFile, calls, lastCall, ctlPc, ctxDone,
                   tickPending, consumed, afterCancel, monErr>>

\* The controller starts: it loads the persisted data of its fan and enters
\* AttachFanCurveData.
FanControllerLoad ==
    /\ ctlPc = "init"
    /\ ctlPc' = "attaching"
    /\ UNCHANGED <<build, runVars, bindVars, pwmVars, devVars, fanPc, curveData, curveDataNil, savedData,
                   attachErr, hwmonFan, pwmFile, calls, lastCall, monPc, ctxDone,
                   tickPending, consumed, afterCancel, monErr>>

\* AttachFanCurveData has written the windows of the fan and its boundaries.
FanControllerAttached ==
    /\ ctlPc = "attaching"
    /\ attachErr' = AttachFanCurveData(curveData, hwmonFan).err
    /\ hwmonFan' = AttachFanCurveData(curveData, hwmonFan).fan
    /\ ctlPc' = "running"
    /\ UNCHANGED <<build, runVars, bindVars, pwmVars, devVars, fanPc, curveData, curveDataNil, savedData,
                   pwmFile, calls, lastCall, monPc, ctxDone, tickPending, consumed,
                   afterCancel, monErr>>

\* The controller's loop: it writes a PWM value, or sees the cancellation
\* and returns.
FanControllerStep ==
    /\ ctlPc = "running"
    /\ IF ctxDone
       THEN ctlPc' = "returned" /\ UNCHANGED <<pwmFile, hwmonFan>>
       ELSE /\ \E v \in FanPwms :
                 /\ v # pwmFile
                 /\ pwmFile' = v
                 /\ hwmonFan' = [hwmonFan EXCEPT !.LastSetPwm = v]
            /\ UNCHANGED ctlPc
    /\ UNCHANGED <<build, runVars, bindVars, pwmVars, devVars, fanPc, curveData, curveDataNil, savedData,
                   attachErr, calls, lastCall, monPc, ctxDone, tickPending,
                   consumed, afterCancel, monErr>>

\* Both tasks are writing the map of the fan: the runtime may end the process
\* with "concurrent map writes".
ConcurrentMapWrites ==
    /\ monPc = "measuring"
    /\ ctlPc = "attaching"
    /\ curveData # <<>>
    /\ monPc' = "crashed"
    /\ ctlPc' = "crashed"
    /\ UNCHANGED <<build, runVars, bindVars, pwmVars, devVars, fanPc, curveData, curveDataNil, savedData,
                   attachErr, hwmonFan, pwmFile, calls, lastCall, ctxDone,
                   tickPending, consumed, afterCancel, monErr>>

(* ------------------------ the platform of a device --------------------- *)

\* A path is the sequence of its segments, each preceded by "/"; a last
\* segment "" is a trailing "/". A string that is no path is one segment.
PathSegments == {"platform", "{}", "nct6775", "hwmon0", ""}
DevicePaths == UNION {[1..n -> PathSegments] : n \in 1..MaxSegments}
DeviceNames == {"", "nct6775"}
EmptyString == <<>>

\* regexp ".*/platform/{}/.*": the braces hold no count, so they are the two
\* characters "{}"; the expression matches a path with the segment "platform"
\* followed by the segment "{}" and a "/".
PlatformRegexMatches(path) ==
    \E i \in 1..Len(path) :
        /\ i + 1 < Len(path)
        /\ path[i] = "platform"
        /\ path[i + 1] = "{}"

\* findPlatform: FindString returns the text matched, with ".*" on both sides
\* the whole path, or the empty string.
findPlatform(path) == IF PlatformRegexMatches(path) THEN path ELSE EmptyString

\* computeIdentifier for a path without "/pci": the name of the device, or
\* the last segment of the path when the name is empty.
computeIdentifier(path, name) ==
    IF name # "" THEN <<name>> ELSE <<path[Len(path)]>>

DevInit ==
    /\ devPc = "start"
    /\ devicePath \in DevicePaths
    /\ deviceName \in DeviceNames
    /\ ctlName = EmptyString
    /\ ctlPlatform = EmptyString

DevOff ==
    /\ devPc = "off"
    /\ devicePath = EmptyString
    /\ deviceName = ""
    /\ ctlName = EmptyString
    /\ ctlPlatform = EmptyString

\* FindControllers, one device: its identifier and its platform.
FindControllersDevice ==
    /\ devPc = "start"
    /\ devPc' = "found"
    /\ LET identifier == computeIdentifier(devicePath, deviceName)
           platform   == findPlatform(devicePath)
       IN  /\ ctlName' = identifier
           /\ ctlPlatform' = IF Len(platform) <= 0 THEN identifier ELSE platform
    /\ UNCHANGED <<build, runVars, bindVars, pwmVars, fanVars, devicePath,
                   deviceName>>

(* --------------------------- specifications --------------------------- *)

RunOff ==
    /\ owner = "root"
    /\ nSensors = 0
    /\ nFans = 0
    /\ mainPc = "off"
    /\ intIdx = 0
    /\ task = <<>>
    /\ errors = 0
    /\ firstErr = "none"
    /\ firstKind = "none"
    /\ received = 0
    /\ cancelled = FALSE
    /\ sigOpen = TRUE
    /\ sigArrived = FALSE
    /\ exitCode = -1
    /\ origPwmEnable = <<>>
    /\ pwmEnable = <<>>
    /\ pwm = <<>>
    /\ restoreLog = <<>>

\* The supervisor.
Init ==
    /\ build \in Builds
    /\ RunInit
    /\ BindOff
    /\ PwmOff
    /\ DevOff
    /\ FanOff

Next ==
    \/ CheckOwner
    \/ Initialize
    \/ StartGroup
    \/ ReceiveFirst
    \/ InterruptSensor
    \/ InterruptRpm
    \/ InterruptController
    \/ InterruptSignal
    \/ RunReturn
    \/ SignalArrives
    \/ \E a \in Actors :
         \/ SensorObserveCancel(a)
         \/ SensorFail(a)
         \/ RpmObserveCancel(a)
         \/ ControllerTick(a)
         \/ ControllerFail(a)
         \/ ControllerObserveCancel(a)
         \/ SignalTaskReturn(a)

Spec == Init /\ [][Next]_vars

\* The revision whose Run restores the fans itself.
LegacyInit == Init /\ build = "legacy"
LegacySpec == LegacyInit /\ [][Next]_vars

\* Startup: discovery and the binding of the configuration.
InitBind ==
    /\ build \in Builds
    /\ RunOff
    /\ BindInit
    /\ PwmOff
    /\ DevOff
    /\ FanOff

NextBind ==
    \/ FindControllers
    \/ MapConfigToControllers
    \/ InitializeObjects
    \/ SpawnTasks
    \/ DetectCmd

SpecBind == InitBind /\ [][NextBind]_vars

\* The PWM boundaries of a fan with curve data.
InitPwm ==
    /\ build = "legacy"
    /\ RunOff
    /\ BindOff
    /\ PwmInit
    /\ DevOff
    /\ FanOff

NextPwm == CallGetPwmBoundaries

SpecPwm == InitPwm /\ [][NextPwm]_vars

\* AttachFanCurveData on persisted data.
InitAttach ==
    /\ build = "legacy"
    /\ RunOff
    /\ BindOff
    /\ PwmOff
    /\ DevOff
    /\ AttachInit

NextAttach ==
    \/ CallAttachFanCurveData
    \/ SaveAndAttachAgain

SpecAttach == InitAttach /\ [][NextAttach]_vars

\* One fan, the calls of its sampler and of its controller one after another.
InitFan ==
    /\ build \in Builds
    /\ RunOff
    /\ BindOff
    /\ PwmOff
    /\ DevOff
    /\ FanInit

NextFan ==
    \/ RpmTick
    \/ ControllerSetPwm
    \/ ControllerAttach

SpecFan == InitFan /\ [][NextFan]_vars

\* One fan, its RPM sampler and its controller running as two tasks.
InitTasks ==
    /\ build \in Builds
    /\ RunOff
    /\ BindOff
    /\ PwmOff
    /\ DevOff
    /\ MonInit

NextTasks ==
    \/ TimeTick
    \/ CancelContext
    \/ SamplerSelectDone
    \/ SamplerSelectTick
    \/ SamplerMeasured
    \/ FanControllerLoad
    \/ FanControllerAttached
    \/ FanControllerStep
    \/ ConcurrentMapWrites

SpecTasks == InitTasks /\ [][NextTasks]_vars

\* The discovery of one device.
InitDevice ==
    /\ build \in Builds
    /\ RunOff
    /\ BindOff
    /\ PwmOff
    /\ FanOff
    /\ DevInit

NextDevice == FindControllersDevice

SpecDevice == InitDevice /\ [][NextDevice]_vars

(* ============================== claims =============================== *)

Exited == mainPc = "exited"
\* g.Run received a first result: the shutdown of the task group has begun.
ShutdownBegun == received > 0
AllRestored == \A f \in Fans : restoreLog[f] # <<>>
AllReturned == \A a \in Actors : task[a] = "returned"
FanSafe(f) == pwmEnable[f] = origPwmEnable[f] \/ pwm[f] = MaxPwmValue
\* the last write of the fan's restore step failed: the hardware refused it
RestoreWriteFailed(f) ==
    restoreLog[f] # <<>> /\ ~restoreLog[f][Len(restoreLog[f])].ok

\* C1: after a shutdown triggered by SIGINT/SIGTERM, every fan at process exit
\* has pwm_enable equal to the captured original or pwm equal to 255, for
\* every number of sensors and fans (a fan whose last restore write the
\* hardware refused is left aside).
C1_FansSafeAtExit ==
    (Exited /\ firstKind = "signal") =>
        \A f \in Fans : FanSafe(f) \/ RestoreWriteFailed(f)

\* C2 as stated: the restore step first attempts to write original_pwm_enable
\* whatever its value; a successful write is followed by no PWM write; a
\* failed one by the PWM 255 write.
C2_RestoreWritesEnableFirst ==
    \A f \in Fans :
        restoreLog[f] # <<>> =>
            /\ restoreLog[f][1].file = "pwm_enable"
            /\ restoreLog[f][1].value = origPwmEnable[f]
            /\ restoreLog[f][1].ok => Len(restoreLog[f]) = 1
            /\ ~restoreLog[f][1].ok =>
                   /\ Len(restoreLog[f]) = 2
                   /\ restoreLog[f][2].file = "pwm"
                   /\ restoreLog[f][2].value = MaxPwmValue

\* C2 amended: the restore step attempts to write original_pwm_enable unless
\* it is 1, and then a successful write is followed by no PWM write and a
\* failed one by the PWM 255 write; with an original of 1 the PWM 255 write is
\* the only write; and whatever the writes' outcomes, the process exits only
\* with every fan's restore step run and every task returned.
C2_RestoreAmended ==
    /\ \A f \in Fans :
          restoreLog[f] # <<>> =>
            IF origPwmEnable[f] # 1
            THEN /\ restoreLog[f][1] = EnableWrite(f, restoreLog[f][1].ok)
                 /\ restoreLog[f][1].ok => Len(restoreLog[f]) = 1
                 /\ ~restoreLog[f][1].ok =>
                        /\ Len(restoreLog[f]) = 2
                        /\ restoreLog[f][2] = PwmWrite(restoreLog[f][2].ok)
            ELSE /\ Len(restoreLog[f]) = 1
                 /\ restoreLog[f][1] = PwmWrite(restoreLog[f][1].ok)
    /\ (Exited /\ \E f \in Fans : restoreLog[f] # <<>>) =>
          AllRestored /\ AllReturned

\* C2 witness: a fan found in manual mode whose PWM 255 write failed, a fan
\* restored after it by a successful pwm_enable write, and a fan whose
\* pwm_enable write failed, at the exit of the process.
C2_Witness ==
    /\ build = "legacy"
    /\ Exited
    /\ \E f \in Fans, g \in Fans :
          /\ f < g
          /\ origPwmEnable[f] = 1
          /\ restoreLog[f] = <<PwmWrite(FALSE)>>
          /\ restoreLog[g] \in {<<EnableWrite(g, TRUE)>>,
                                 <<EnableWrite(g, FALSE), PwmWrite(TRUE)>>}
          /\ origPwmEnable[g] = 2

\* C3: once the shutdown has begun, the process does not exit before the
\* restore step of every fan has completed and every task has returned.
C3_NoExitBeforeRestore ==
    (Exited /\ ShutdownBegun) => (AllRestored /\ AllReturned)

\* C4: a signal delivered while the tasks run leads to the cancellation of
\* the context and to the return of every task before the process ends.
C4_SignalCancelsAll ==
    (Exited /\ sigArrived) => (cancelled /\ AllReturned)

\* C5: a task that returns an error while no signal has arrived makes the
\* supervisor cancel the context, every sibling return and every fan's
\* restore step run, and Run report that error.
C5_ErrorCancelsSiblings ==
    (Exited /\ firstErr = "err" /\ ~sigArrived) =>
        (cancelled /\ AllReturned /\ AllRestored /\ exitCode = 1)

\* C6: the exit code is 1 when the owner is not root, when the binding fails
\* or when the task group returns an error, and 0 for a shutdown initiated by
\* a signal; such a shutdown never ends with 1.
C6_ExitCodes ==
    Exited =>
        /\ owner # "root" => exitCode = 1
        /\ ~ShutdownBegun => exitCode = 1
        /\ firstErr = "err" => exitCode = 1
        /\ firstKind = "signal" => exitCode = 0

\* C7: a fan or sensor configuration that matches no discovered controller
\* makes startup fail before any task is spawned, and no bound fan has an
\* empty path.
C7_UnmatchedConfigIsFatal ==
    bindPc = "spawned" =>
        /\ \A c \in fanConfigs : FanMatches(c)
        /\ \A c \in sensorConfigs : SensorMatches(c)
        /\ \A c \in DOMAIN fanMap :
              fanMap[c].PwmOutput # NoPath /\ fanMap[c].RpmInput # NoPath

\* C8: a fan configuration (P, N) whose controller has pwmN and fanN_input is
\* bound to the pwmN and fanN_input files of the controller of platform P.
C8_BoundToOwnIndex ==
    bindPc \in {"bound", "spawned"} =>
        \A c \in DOMAIN fanMap :
            (FanMatches(c) /\ c.index \in controllers[c.platform].fan) =>
                /\ fanMap[c].PwmOutput = Path(c.platform, "pwm", c.index)
                /\ fanMap[c].RpmInput = Path(c.platform, "fan_input", c.index)

SetMin(S) == CHOOSE x \in S : \A y \in S : x <= y
\* the keys whose window average is greater than 0
SpinningKeys == {k \in DOMAIN fanCurveData : WindowSum(fanCurveData[k]) > 0}
\* the keys whose window average, truncated to an integer, is greater than 0
TruncSpinningKeys == {k \in DOMAIN fanCurveData : AvgRpm(fanCurveData[k]) > 0}
BoundariesOfData == pwmPc = "done" /\ DOMAIN fanCurveData # {}

\* C9 as stated: start_pwm is the smallest key whose window average is
\* greater than 0, and 0 when the data has no such key.
C9_StartPwm ==
    BoundariesOfData =>
        retStartPwm = IF SpinningKeys # {} THEN SetMin(SpinningKeys) ELSE 0

\* C9 amended: start_pwm is the smallest key whose window average, truncated
\* to an integer, is greater than 0, and 255 when the data has no such key.
C9_StartPwmAmended ==
    BoundariesOfData =>
        retStartPwm = IF TruncSpinningKeys # {} THEN SetMin(TruncSpinningKeys)
                      ELSE MaxPwmValue

\* C9 witness: a key with an average between 0 and 1 lies below two keys
\* with an average of at least 1, and the smaller of these is returned.
C9_Witness ==
    /\ BoundariesOfData
    /\ \E k \in SpinningKeys \ TruncSpinningKeys : k < retStartPwm
    /\ \E k \in TruncSpinningKeys : k > retStartPwm
    /\ retStartPwm \in TruncSpinningKeys

\* C10 as stated: max_pwm is the smallest of the keys whose window average
\* is the greatest, also when every average is 0.
C10_MaxPwm ==
    BoundariesOfData =>
        retMaxPwm = SetMin({k \in DOMAIN fanCurveData :
                              \A j \in DOMAIN fanCurveData :
                                  WindowSum(fanCurveData[j]) <= WindowSum(fanCurveData[k])})

\* C10 amended: max_pwm is the smallest of the keys whose window average,
\* truncated to an integer, is the greatest, when that average is greater than
\* 0, and 255 when every truncated average is 0.
C10_MaxPwmAmended ==
    BoundariesOfData =>
        retMaxPwm = IF TruncSpinningKeys # {}
                    THEN SetMin({k \in DOMAIN fanCurveData :
                                   \A j \in DOMAIN fanCurveData :
                                       AvgRpm(fanCurveData[j]) <= AvgRpm(fanCurveData[k])})
                    ELSE MaxPwmValue

\* C10 witness: two keys share the greatest truncated average, the larger
\* key has the greater average, and the smaller key is returned.
C10_Witness ==
    /\ BoundariesOfData
    /\ \E k \in DOMAIN fanCurveData, j \in DOMAIN fanCurveData :
          /\ k < j
          /\ AvgRpm(fanCurveData[k]) = AvgRpm(fanCurveData[j])
          /\ AvgRpm(fanCurveData[k]) > 0
          /\ WindowSum(fanCurveData[k]) < WindowSum(fanCurveData[j])
          /\ \A i \in DOMAIN fanCurveData :
                AvgRpm(fanCurveData[i]) <= AvgRpm(fanCurveData[k])
          /\ retMaxPwm = k

\* C11: for a fan without curve data (the map is empty or absent)
\* GetPwmBoundaries returns start_pwm = 0 and max_pwm = 255 without failing.
C11_NoCurveData ==
    (pwmPc \in {"done", "panic"} /\ DOMAIN fanCurveData = {}) =>
        /\ pwmPc = "done"
        /\ retStartPwm = 0
        /\ retMaxPwm = MaxPwmValue

\* C11 for the empty map alone: the boundaries are 0 and 255.
C11_EmptyMap ==
    (pwmPc \in {"done", "panic"} /\ ~fanCurveDataNil /\ DOMAIN fanCurveData = {}) =>
        /\ pwmPc = "done"
        /\ retStartPwm = 0
        /\ retMaxPwm = MaxPwmValue

Attached == fanPc = "attached" /\ attachErr = "nil"
SetMax(S) == CHOOSE x \in S : \A y \in S : y <= x
\* the nearest defined PWM below i and the nearest defined PWM above i
DefinedBelow(i) == {k \in DOMAIN curveData : k < i}
DefinedAbove(i) == {k \in DOMAIN curveData : k > i}
\* the linear interpolation at i between the averages of the PWMs lo and hi
Interpolation(lo, hi, i) ==
    RatAdd(Avg(curveData[lo]),
           RatMul(Rat(i - lo, hi - lo),
                  RatSub(Avg(curveData[hi]), Avg(curveData[lo]))))

\* C13: with three or more defined PWMs, every missing PWM between two defined
\* PWMs gets the linear interpolation between the averages of the nearest
\* defined PWM below it and the nearest defined PWM above it.
C13_NearestInterpolation ==
    (Attached /\ Cardinality(DOMAIN curveData) >= 3) =>
        \A i \in (0..limit) \ DOMAIN curveData :
            (DefinedBelow(i) # {} /\ DefinedAbove(i) # {}) =>
                getWindowAvg(hwmonFan.FanCurveData[i]) =
                    Interpolation(SetMax(DefinedBelow(i)), SetMin(DefinedAbove(i)), i)

\* C14: every PWM below the lowest defined PWM has the average of the lowest
\* defined PWM, and every PWM above the highest defined PWM has the average of
\* the highest defined PWM.
C14_EndsRepeated ==
    Attached =>
        \A i \in 0..limit :
            /\ i < SetMin(DOMAIN curveData) =>
                  getWindowAvg(hwmonFan.FanCurveData[i]) =
                      Avg(curveData[SetMin(DOMAIN curveData)])
            /\ i > SetMax(DOMAIN curveData) =>
                  getWindowAvg(hwmonFan.FanCurveData[i]) =
                      Avg(curveData[SetMax(DOMAIN curveData)])

\* C15 as stated: attaching dense data leaves for every PWM the average of
\* its persisted samples, whatever their number.
C15_DenseAverages ==
    (Attached /\ IsDense(curveData)) =>
        \A i \in 0..limit :
            getWindowAvg(hwmonFan.FanCurveData[i]) = Avg(curveData[i])

\* C15 for as many persisted samples as the window holds: the window of
\* every PWM holds the first RpmRollingWindowSize persisted samples (all of
\* them when they are fewer), the average is kept when their number is the
\* window size, and attaching the saved windows again yields the same table.
C15_FullWindows ==
    /\ (Attached /\ IsDense(curveData)) =>
          \A i \in 0..limit :
              /\ \A n \in 1..RpmRollingWindowSize :
                    n <= Len(curveData[i]) =>
                        hwmonFan.FanCurveData[i].slots[n] = curveData[i][n]
              /\ Len(curveData[i]) = RpmRollingWindowSize =>
                    getWindowAvg(hwmonFan.FanCurveData[i]) = Avg(curveData[i])
    /\ fanPc = "reattached" =>
          /\ attachErr = "nil"
          /\ Save(hwmonFan.FanCurveData) = savedData

\* C12: in every state of a fan, after its creation and after any calls of
\* measureRpm and AttachFanCurveData, min_pwm <= start_pwm <= max_pwm and the
\* three lie in 0..255.
C12_PwmOrder ==
    fanPc = "running" =>
        /\ hwmonFan.MinPwm <= hwmonFan.StartPwm
        /\ hwmonFan.StartPwm <= hwmonFan.MaxPwm
        /\ {hwmonFan.MinPwm, hwmonFan.StartPwm, hwmonFan.MaxPwm}
              \subseteq MinPwmValue..MaxPwmValue

\* C12 witness: data was attached after a measurement and gave a start_pwm
\* below the max_pwm, above 0.
C12_Witness ==
    /\ fanPc = "running"
    /\ lastCall.op = "attach"
    /\ attachErr = "nil"
    /\ calls = MaxCalls
    /\ pwmFile \in DOMAIN hwmonFan.FanCurveData
    /\ 0 < hwmonFan.MinPwm
    /\ hwmonFan.MinPwm = hwmonFan.StartPwm
    /\ hwmonFan.StartPwm < hwmonFan.MaxPwm
    /\ hwmonFan.MaxPwm < MaxPwmValue

\* C18: a tick of the RPM sampler appends the current RPM to the window of
\* the current PWM, creating the window if need be, and updates
\* rpm_moving_avg; the other windows, last_set_pwm, min_pwm, start_pwm and
\* max_pwm stay as they are.
C18_TickFrame ==
    [][(calls' # calls /\ lastCall'.op = "tick") =>
         LET old == hwmonFan.FanCurveData
             new == hwmonFan'.FanCurveData
             rpm == RatInt(lastCall'.rpm)
         IN  /\ DOMAIN new = DOMAIN old \cup {pwmFile}
             /\ new[pwmFile] =
                   WindowAppend(IF pwmFile \in DOMAIN old THEN old[pwmFile]
                                ELSE createRollingWindow(RpmRollingWindowSize), rpm)
             /\ \A k \in DOMAIN old \ {pwmFile} : new[k] = old[k]
             /\ hwmonFan'.RpmMovingAvg =
                   updateSimpleMovingAvg(hwmonFan.RpmMovingAvg,
                                         RpmRollingWindowSize, rpm)
             /\ hwmonFan'.LastSetPwm = hwmonFan.LastSetPwm
             /\ hwmonFan'.MinPwm = hwmonFan.MinPwm
             /\ hwmonFan'.StartPwm = hwmonFan.StartPwm
             /\ hwmonFan'.MaxPwm = hwmonFan.MaxPwm]_vars

\* C16: Run starts one sensor monitor per configured sensor and, per
\* configured fan, one controller and one RPM sampler, and the sampler of a
\* fan operates on the id of that fan: no two samplers share a fan id.
C16_OneTaskEach ==
    bindPc = "spawned" =>
        /\ spawned.monitors = sensorConfigs
        /\ spawned.controllers = fanConfigs
        /\ DOMAIN spawned.samplers = fanConfigs
        /\ \A c \in fanConfigs : spawned.samplers[c] = c

\* C17: when the owner of the process is not root, Run performs no
\* discovery, binds nothing, starts no task and writes no sysfs file before
\* it ends the process with a fatal error.
C17_RootRequired ==
    owner # "root" =>
        /\ mainPc \in {"start", "exited"}
        /\ mainPc = "exited" => exitCode = 1
        /\ \A a \in Actors : task[a] = "idle"
        /\ received = 0 /\ ~cancelled
        /\ pwmEnable = origPwmEnable
        /\ pwm = [f \in Fans |-> TickPwm]
        /\ \A f \in Fans : restoreLog[f] = <<>>

\* C17 witness: a process of another owner, with fans and sensors
\* configured, has ended.
C17_Witness ==
    /\ owner # "root"
    /\ Exited
    /\ exitCode = 1
    /\ nFans > 0
    /\ nSensors > 0

\* C19: in every interleaving of the RPM sampler and the controller of one
\* fan, no state is reached in which AttachFanCurveData, called by the
\* controller, and measureRpm, called by the sampler, both write the
\* curve-data map of the fan.
C19_SingleWriter ==
    ~(monPc = "measuring" /\ ctlPc = "attaching" /\ curveData # <<>>)

\* C20: after the cancellation an RPM sampler receives at most one more tick
\* and then returns nil; it returns no other value and does not return while
\* the context is not cancelled.
C20_ReturnsAfterCancel ==
    /\ afterCancel <= 1
    /\ monPc = "returned" => monErr = "nil" /\ ctxDone

\* C20, its second half: what the sampler returns, and when.
C20_ReturnsNilOnCancel ==
    /\ monPc = "returned" => monErr = "nil" /\ ctxDone
    /\ monErr # "none" => monPc = "returned"

\* C21: AttachFanCurveData called with absent (nil) or empty data returns
\* the invalid-data error and leaves the fan's curve data, min_pwm, start_pwm
\* and max_pwm as they were; called with data that is not empty it returns
\* no error.
C21_VoidDataRefused ==
    [][(calls' # calls /\ lastCall'.op = "attach") =>
         IF curveDataNil' \/ DOMAIN curveData' = {}
         THEN /\ attachErr' = "ErrInvalid"
              /\ hwmonFan'.FanCurveData = hwmonFan.FanCurveData
              /\ hwmonFan'.MinPwm = hwmonFan.MinPwm
              /\ hwmonFan'.StartPwm = hwmonFan.StartPwm
              /\ hwmonFan'.MaxPwm = hwmonFan.MaxPwm
         ELSE attachErr' = "nil"]_vars

\* C21 witness: empty data was refused for a fan that holds curve data.
C21_Witness ==
    /\ fanPc = "running"
    /\ lastCall.op = "attach"
    /\ ~curveDataNil
    /\ curveData = <<>>
    /\ attachErr = "ErrInvalid"
    /\ hwmonFan.FanCurveData # <<>>

\* A path holds /platform/<name>/ with a name that is not empty.
PlatformAttached(path) ==
    \E i \in 1..Len(path) :
        /\ i + 1 < Len(path)
        /\ path[i] = "platform"
        /\ path[i + 1] # ""

\* C22: for every device path that holds /platform/<name>/ with a name that
\* is not empty, the platform of the controller is the match of the path and
\* differs from the identifier; only for the other paths is the platform the
\* identifier of the controller.
C22_PlatformFromPath ==
    devPc = "found" =>
        IF PlatformAttached(devicePath)
        THEN ctlPlatform = devicePath /\ ctlPlatform # ctlName
        ELSE ctlPlatform = ctlName

\* C23: the restore step of a fan is the last write to the fan: once it has
\* executed, in no interleaving does the controller of the fan write the pwm
\* or the pwm_enable file of the fan again.
C23_RestoreIsLastWrite ==
    [][\A f \in Fans :
         restoreLog[f] # <<>> =>
            /\ pwm'[f] = pwm[f]
            /\ pwmEnable'[f] = pwmEnable[f]]_vars

\* C24: after AttachFanCurveData returned without error, the curve data of
\* the fan has a window for every PWM of 0..limit and each of them holds
\* exactly RpmRollingWindowSize samples, whatever PWMs and however many
\* samples per PWM the persisted data held.
C24_FullTable ==
    (fanPc \in {"attached", "reattached"} /\ attachErr = "nil") =>
        \A i \in 0..limit :
            /\ i \in DOMAIN hwmonFan.FanCurveData
            /\ Len(hwmonFan.FanCurveData[i].slots) = RpmRollingWindowSize
            /\ hwmonFan.FanCurveData[i].offset = 0
            /\ Len(SavedSamples(hwmonFan.FanCurveData[i])) = RpmRollingWindowSize

\* C24 witness: data that defines some PWMs only, with fewer samples than a
\* window holds, was attached.
C24_Witness ==
    /\ Attached
    /\ DOMAIN curveData # {}
    /\ DOMAIN curveData # 0..limit
    /\ \A i \in DOMAIN curveData : Len(curveData[i]) < RpmRollingWindowSize
    /\ DOMAIN hwmonFan.FanCurveData = 0..limit

====
